---- MODULE Spec2Model ----
(***************************************************************************)
(* Model of the newline-delimited JSON tool server (class MCPServer).      *)
(*                                                                         *)
(* Text on the wire is a sequence of one-character strings.  The JSON      *)
(* texts of the requests are abbreviated to short words of letters         *)
(* (CodeBook); every other arrangement of characters is not a JSON text.   *)
(*                                                                         *)
(* The event loop runs one callback at a time and drains the promise       *)
(* queue after it, so an action is one callback together with every        *)
(* continuation that becomes runnable without waiting for I/O.             *)
(*                                                                         *)
(* Spec is the server on its connections; FairSpec adds that the callback  *)
(* of serverInstance.close is not postponed for ever.  CalcSpec,           *)
(* ValidateSpec and TransformSpec call one tool directly through           *)
(* handleMessage, on every request of a bounded set: calculate, and        *)
(* jsonProcess with validate and with transform.  The values of a          *)
(* jsonProcess request live in a heap of objects, so that sharing of an    *)
(* object between the request and the result is visible.  The order of     *)
(* the keys of an object is not modelled.                                  *)
(***************************************************************************)
EXTENDS Integers, Sequences, FiniteSets, TLC

\* ---------------------------------------------------------------- bounds
NConns == 2
MaxRecv == 5

Conns == 1..NConns

\* ------------------------------------------------------------- wire text
NL == "\n"
SP == " "
Letters == {"a", "b"}
Chars == {NL, SP} \cup Letters

Undefined == "undefined"

RECURSIVE SeqsOfLen(_)
SeqsOfLen(n) ==
  IF n = 0 THEN {<<>>}
  ELSE {Append(s, ch) : s \in SeqsOfLen(n - 1), ch \in Chars}

Chunks(n) == UNION {SeqsOfLen(k) : k \in 1..n}

\* String.prototype.includes
Includes(s, ch) == \E i \in 1..Len(s) : s[i] = ch

IndexOf(s, ch) == CHOOSE i \in 1..Len(s) : s[i] = ch /\ \A j \in 1..(i - 1) : s[j] # ch

\* String.prototype.split("\n")
RECURSIVE Split(_)
Split(s) ==
  IF ~Includes(s, NL) THEN <<s>>
  ELSE LET i == IndexOf(s, NL)
       IN  <<SubSeq(s, 1, i - 1)>> \o Split(SubSeq(s, i + 1, Len(s)))

PopCleared(messages) == <<>>

\* Array.prototype.pop() || ""
PopOrEmpty(messages) ==
  LET last == messages[Len(messages)] IN IF last = <<>> THEN <<>> ELSE last

FrontAll(messages) == messages

\* the array the loop runs over: messages.pop() has taken its last element
Front(messages) == SubSeq(messages, 1, Len(messages) - 1)

\* String.prototype.trim
RECURSIVE TrimLeft(_)
TrimLeft(s) == IF s # <<>> /\ Head(s) = SP THEN TrimLeft(Tail(s)) ELSE s

RECURSIVE TrimRight(_)
TrimRight(s) ==
  IF s # <<>> /\ s[Len(s)] = SP THEN TrimRight(SubSeq(s, 1, Len(s) - 1)) ELSE s

Trim(s) == TrimRight(TrimLeft(s))

\* ------------------------------------------------------------ JS values
\* obj[k] for a key the object may lack
Get(obj, k) == IF k \in DOMAIN obj THEN obj[k] ELSE Undefined

JsonStr(s) == "\"" \o s \o "\""

\* JSON.stringify of an object given as its <<key, JSON text of value>>
\* pairs in insertion order: a property whose value is undefined is left out.
RECURSIVE Members(_, _)
Members(pairs, first) ==
  IF pairs = <<>> THEN ""
  ELSE LET p == Head(pairs)
       IN  IF p[2] = Undefined THEN Members(Tail(pairs), first)
           ELSE (IF first THEN "" ELSE ",") \o JsonStr(p[1]) \o ":" \o p[2]
                \o Members(Tail(pairs), FALSE)

Stringify(pairs) == "{" \o Members(pairs, TRUE) \o "}"

\* The requests of the model and the words that abbreviate their JSON texts
\* (params of systemInfo is the empty object).
CodeBook ==
  [w \in {<<"a">>, <<"b">>, <<"a", "a">>, <<"a", "b">>, <<"b", "a">>,
          <<"a", "a", "a">>, <<"a", "a", "b">>, <<"a", "b", "a">>, <<"a", "b", "b">>,
          <<"b", "a", "a">>, <<"b", "b", "a">>} |->
     CASE w = <<"a">> -> [tool |-> "fileContent",
                          params |-> [operation |-> "write", path |-> "f",
                                      content |-> "x"]]
       [] w = <<"b">> -> [tool |-> "echo", params |-> [message |-> JsonStr("hi")]]
       [] w = <<"a", "a">> -> [tool |-> "fileContent",
                               params |-> [operation |-> "read", path |-> "f"]]
       [] w = <<"a", "b">> -> [tool |-> "listDir", params |-> [path |-> "."]]
       [] w = <<"b", "a">> -> [tool |-> "searchFiles",
                               params |-> [path |-> ".", pattern |-> "f"]]
       [] w = <<"a", "a", "a">> -> [tool |-> "nope", params |-> [message |-> JsonStr("hi")]]
       [] w = <<"a", "a", "b">> -> [tool |-> "echo", params |-> [text |-> JsonStr("hi")]]
       [] w = <<"a", "b", "a">> -> [tool |-> "calculate",
                                    params |-> [operation |-> "divide", a |-> 1, b |-> 0]]
       [] w = <<"a", "b", "b">> -> [tool |-> "calculate",
                                    params |-> [operation |-> "add", a |-> 1, b |-> 2]]
       [] w = <<"b", "a", "a">> -> [tool |-> "systemInfo", params |-> <<>>]
       [] w = <<"b", "b", "a">> -> [tool |-> "fileContent",
                                    params |-> [operation |-> "write", path |-> "f"]]]

\* JSON white space around a text is insignificant
RECURSIVE StripLeft(_)
StripLeft(s) == IF s # <<>> /\ Head(s) = SP THEN StripLeft(Tail(s)) ELSE s

RECURSIVE StripRight(_)
StripRight(s) ==
  IF s # <<>> /\ s[Len(s)] = SP THEN StripRight(SubSeq(s, 1, Len(s) - 1)) ELSE s

\* JSON.parse: the value of a JSON text, a SyntaxError for anything else
JSONParse(msg) ==
  LET t == StripRight(StripLeft(msg))
  IN  IF t \in DOMAIN CodeBook THEN [ok |-> TRUE, value |-> CodeBook[t]]
      ELSE [ok |-> FALSE]

\* ------------------------------------------------------------ file system
NoFile == "ENOENT"
FileList == <<"f">>
Files == {FileList[i] : i \in 1..Len(FileList)}
Dir == "."

ReadFile(fsv, path) ==
  IF path \in Files /\ fsv[path] # NoFile
  THEN [kind |-> "return", value |-> fsv[path]]
  ELSE [kind |-> "throw",
        message |-> "ENOENT: no such file or directory, open '" \o path \o "'"]

WriteFile(fsv, path, content) ==
  IF path \in Files THEN [fsv EXCEPT ![path] = content] ELSE fsv

\* fs.readdir(path, {withFileTypes: true}): the names, all of them plain files
Readdir(fsv, path) ==
  IF path = Dir
  THEN [kind |-> "return", value |-> SelectSeq(FileList, LAMBDA f : fsv[f] # NoFile)]
  ELSE [kind |-> "throw",
        message |-> "ENOENT: no such file or directory, scandir '" \o path \o "'"]

\* path.join
Join(path, name) == IF path = Dir THEN name ELSE path \o "/" \o name

\* String.prototype.includes on file names (names and patterns are single characters)
NameIncludes(name, pattern) == pattern = "" \/ name = pattern

\* JSON text of an array whose elements are given as JSON texts
RECURSIVE Elements(_, _)
Elements(texts, first) ==
  IF texts = <<>> THEN ""
  ELSE (IF first THEN "" ELSE ",") \o Head(texts) \o Elements(Tail(texts), FALSE)

ArrayText(texts) == "[" \o Elements(texts, TRUE) \o "]"

\* ----------------------------------------------------------------- tools
Tools == {"echo", "listDir", "searchFiles", "calculate", "fileContent", "systemInfo",
          "jsonProcess"}

Return(v) == [kind |-> "return", value |-> v]
Throw(m) == [kind |-> "throw", message |-> m]

ExecEcho(params) == Return(<<<<"message", Get(params, "message")>>>>)

NumberText(n) == ToString(n)

Abs(n) == IF n < 0 THEN 0 - n ELSE n

\* a / b for b not 0: the integer quotients when the division is exact
Quotients(a, b) == {q \in (0 - Abs(a))..Abs(a) : q * b = a}

\* the text of the number a / b: a fraction stands for a quotient that is
\* not an integer
QuotientText(a, b) ==
  IF Quotients(a, b) # {} THEN NumberText(CHOOSE q \in Quotients(a, b) : TRUE)
  ELSE NumberText(a) \o "/" \o NumberText(b)

ExecCalculateUnchecked(params) ==
  LET operation == Get(params, "operation")
      a == Get(params, "a")
      b == Get(params, "b")
  IN  CASE operation = "add" -> Return(<<<<"result", NumberText(a + b)>>>>)
        [] operation = "subtract" -> Return(<<<<"result", NumberText(a - b)>>>>)
        [] operation = "multiply" -> Return(<<<<"result", NumberText(a * b)>>>>)
        [] operation = "divide" ->
             IF b = 0 THEN Return(<<<<"result", "null">>>>)
             ELSE Return(<<<<"result", QuotientText(a, b)>>>>)
        [] OTHER -> Throw("Invalid operation")

ExecCalculate(params) ==
  LET operation == Get(params, "operation")
      a == Get(params, "a")
      b == Get(params, "b")
  IN  CASE operation = "add" -> Return(<<<<"result", NumberText(a + b)>>>>)
        [] operation = "subtract" -> Return(<<<<"result", NumberText(a - b)>>>>)
        [] operation = "multiply" -> Return(<<<<"result", NumberText(a * b)>>>>)
        [] operation = "divide" ->
             IF b = 0 THEN Throw("Division by zero")
             ELSE Return(<<<<"result", QuotientText(a, b)>>>>)
        [] OTHER -> Throw("Invalid operation")

\* The tools that wait for the file system: TRUE when execute reaches its
\* await of fs.readFile, fs.writeFile or fs.readdir.
AwaitsIO(tool, params) ==
  \/ tool \in {"listDir", "searchFiles"}
  \/ /\ tool = "fileContent"
     /\ \/ Get(params, "operation") = "read"
        \/ Get(params, "operation") = "write" /\ Get(params, "content") # Undefined

\* the snapshot of the host: the same at every call of the model
ExecSystemInfo ==
  Return(<<<<"cpu", Stringify(<<<<"cores", "4">>, <<"model", JsonStr("cpu")>>,
                               <<"speed", "1000">>>>)>>,
           <<"memory", Stringify(<<<<"total", "8">>, <<"free", "3">>, <<"used", "5">>>>)>>,
           <<"system", Stringify(<<<<"platform", JsonStr("linux")>>,
                                  <<"arch", JsonStr("x64")>>, <<"uptime", "1">>,
                                  <<"loadAverage", "[0,0,0]">>>>)>>>>)

\* execute of the tools that finish without waiting for I/O (fileContent
\* does so when the operation is not a read or a write with content)
ExecSync(tool, params) ==
  CASE tool = "echo" -> ExecEcho(params)
    [] tool = "calculate" -> ExecCalculate(params)
    [] tool = "systemInfo" -> ExecSystemInfo
    [] tool = "fileContent" ->
         Throw("File operation failed: Invalid operation or missing content for write")

ItemText(name) ==
  Stringify(<<<<"name", JsonStr(name)>>, <<"isDirectory", "false">>>>)

MatchText(path, name) ==
  Stringify(<<<<"name", JsonStr(name)>>, <<"isDirectory", "false">>,
              <<"path", JsonStr(Join(path, name))>>>>)

ExecListDir(params, fsv) ==
  LET r == Readdir(fsv, Get(params, "path"))
  IN  IF r.kind = "throw" THEN Throw("Failed to list directory: " \o r.message)
      ELSE Return(<<<<"items",
                      ArrayText([i \in 1..Len(r.value) |-> ItemText(r.value[i])])>>>>)

ExecSearchFiles(params, fsv) ==
  LET path == Get(params, "path")
      r == Readdir(fsv, path)
  IN  IF r.kind = "throw" THEN Throw("Failed to search files: " \o r.message)
      ELSE LET hits == SelectSeq(r.value,
                                 LAMBDA n : NameIncludes(n, Get(params, "pattern")))
           IN  Return(<<<<"matches",
                          ArrayText([i \in 1..Len(hits) |-> MatchText(path, hits[i])])>>>>)

ExecFileContent(params, fsv) ==
  IF Get(params, "operation") = "read"
  THEN LET r == ReadFile(fsv, Get(params, "path"))
       IN  IF r.kind = "throw" THEN Throw("File operation failed: " \o r.message)
           ELSE Return(<<<<"content", JsonStr(r.value)>>>>)
  ELSE Return(<<<<"success", "true">>>>)

\* the outcome of the awaited file-system call, on completion
ExecIO(tool, params, fsv) ==
  CASE tool = "listDir" -> ExecListDir(params, fsv)
    [] tool = "searchFiles" -> ExecSearchFiles(params, fsv)
    [] OTHER -> ExecFileContent(params, fsv)

\* the file system after the awaited call
FsAfter(tool, params, fsv) ==
  IF tool = "fileContent" /\ Get(params, "operation") = "write"
  THEN WriteFile(fsv, Get(params, "path"), Get(params, "content"))
  ELSE fsv

\* -------------------------------------------------------------- dispatch
LookupFallback(request) == [found |-> TRUE, tool |-> "echo"]

\* handleMessage up to the call of execute: the registry lookup, giving the
\* key of the tool whose execute is called
Lookup(request) ==
  LET tool == Get(request, "tool")
  IN  IF tool \in Tools THEN [found |-> TRUE, tool |-> tool]
      ELSE [found |-> FALSE, error |-> Throw("Tool " \o tool \o " not found")]

HandleMessageNoCatch(outcome) ==
  IF outcome.kind = "throw" THEN [kind |-> "reject"]
  ELSE [kind |-> "resolve", value |-> outcome.value]

\* handleMessage's catch: what the promise of handleMessage settles to
HandleMessageSettle(outcome) ==
  IF outcome.kind = "throw"
  THEN [kind |-> "resolve", value |-> <<<<"error", JsonStr(outcome.message)>>>>]
  ELSE [kind |-> "resolve", value |-> outcome.value]

InvalidFormat == <<<<"error", JsonStr("Invalid message format")>>>>

\* the object the data handler serialises for a parsed request: the try body
\* writes the response, its catch (also reached by a rejection) the format error
ResponseObject(settled) ==
  IF settled.kind = "resolve" THEN settled.value ELSE InvalidFormat

\* the keys JSON.stringify emits for an object
Keys(pairs) == {pairs[i][1] : i \in {j \in 1..Len(pairs) : pairs[j][2] # Undefined}}

SharedSocket(c) == 1

SharedBuffer(c) == 1

\* the buffer variable a connection's callbacks close over
ClosureBuffer(c) == c

\* the socket a connection's callbacks close over
ClosureSocket(c) == c

\* socket.write(JSON.stringify(obj) + "\n"): the written line, with the
\* request line it answers (conn, idx), the data event that line was split
\* in (chunk), whether the line arrived after the interrupt signal (late),
\* the keys of the serialised object and whether execute was called for
\* the request
Entry(it, obj, ran) ==
  [text |-> Stringify(obj) \o NL, keys |-> Keys(obj), conn |-> it.conn, idx |-> it.idx,
   chunk |-> it.chunk, late |-> it.late, ran |-> ran]

LoopAbort(items) == <<>>

\* the lines the loop still has to process after its catch block has run
LoopAfterCatch(items) == Tail(items)

RECURSIVE RunLoop(_, _)

NoAwait(items, written) ==
  LET r == RunLoop(Tail(items), written)
  IN  [written |-> r.written, rest |-> <<Head(items)>> \o r.rest]

\* await this.handleMessage(request) on a tool that waits for the file
\* system: the loop stops at the line, the later lines of the chunk wait
Suspend(items, written) == [written |-> written, rest |-> items]

\* The for loop of the data handler from the given items on, up to its next
\* wait for I/O: the lines it writes and the items left (the first one waiting).
RunLoop(items, written) ==
  IF items = <<>> THEN [written |-> written, rest |-> <<>>]
  ELSE LET it == Head(items)
       IN  IF Trim(it.msg) = <<>> THEN RunLoop(Tail(items), written)
           ELSE LET p == JSONParse(it.msg)
                IN  IF ~p.ok
                    THEN RunLoop(LoopAfterCatch(items),
                                 Append(written, Entry(it, InvalidFormat, FALSE)))
                    ELSE LET l == Lookup(p.value)
                             tool == l.tool
                             params == Get(p.value, "params")
                         IN  IF ~l.found
                             THEN RunLoop(Tail(items),
                                          Append(written,
                                                 Entry(it,
                                                       ResponseObject(HandleMessageSettle(l.error)),
                                                       FALSE)))
                             ELSE IF AwaitsIO(tool, params)
                             THEN Suspend(items, written)
                             ELSE RunLoop(Tail(items),
                                          Append(written,
                                                 Entry(it,
                                                       ResponseObject(HandleMessageSettle(
                                                                        ExecSync(tool, params))),
                                                       TRUE)))

\* ----------------------------------------------------------------- state
\* exitCode while the process runs
NotExited == -1

\* no direct call of a tool has been made
NoCall == [tool |-> "none"]

VARIABLES
  status,     \* per connection: "none" (not accepted), "open", "closed"
  buffer,     \* per connection: the closure variable buffer
  tasks,      \* per connection: the suspended calls of the data handler
  out,        \* per connection: the lines written to its socket, in order
  received,   \* per connection: every character received so far
  fs,         \* the file system: content of each file, or NoFile
  listening,  \* the server accepts connections
  closing,    \* serverInstance.close has been called, its callback not yet run
  exited,     \* process.exit has run
  exitCode,   \* the status the process exited with, NotExited before
  call        \* a direct call of a tool's execute: its input and its outcome

vars == <<status, buffer, tasks, out, received, fs, listening, closing, exited, exitCode,
          call>>

RECURSIVE SumLen(_, _)
SumLen(f, n) == IF n = 0 THEN 0 ELSE Len(f[n]) + SumLen(f, n - 1)

TotalRecv == SumLen(received, NConns)

CountNL(s) == Len(SelectSeq(s, LAMBDA ch : ch = NL))

Init ==
  /\ status = [c \in Conns |-> "none"]
  /\ buffer = [c \in Conns |-> <<>>]
  /\ tasks = [c \in Conns |-> <<>>]
  /\ out = [c \in Conns |-> <<>>]
  /\ received = [c \in Conns |-> <<>>]
  /\ fs = [f \in Files |-> NoFile]
  /\ listening = TRUE
  /\ closing = FALSE
  /\ exited = FALSE
  /\ exitCode = NotExited
  /\ call = NoCall

WriteAlways(o, sock, lines) == [o EXCEPT ![sock] = @ \o lines]

\* socket.write: a line reaches the peer only while the socket is open
Write(o, sock, lines) ==
  IF status[sock] = "open" THEN [o EXCEPT ![sock] = @ \o lines] ELSE o

\* createServer callback: a new connection with its own empty buffer
Accept(c) ==
  /\ ~exited
  /\ listening
  /\ status[c] = "none"
  /\ \A d \in 1..(c - 1) : status[d] # "none"
  /\ status' = [status EXCEPT ![c] = "open"]
  /\ buffer' = [buffer EXCEPT ![ClosureBuffer(c)] = <<>>]
  /\ UNCHANGED <<tasks, out, received, fs, listening, closing, exited, exitCode, call>>

\* socket.on("data")
Data(c, data) ==
  /\ ~exited
  /\ status[c] = "open"
  /\ received' = [received EXCEPT ![c] = @ \o data]
  /\ LET buf == buffer[ClosureBuffer(c)] \o data
     IN  IF Includes(buf, NL)
         THEN LET messages == Split(buf)
                  lines == Front(messages)
                  base == CountNL(received[c])
                  items == [k \in 1..Len(lines) |->
                              [msg |-> lines[k], conn |-> c, idx |-> base + k,
                               chunk |-> base, late |-> ~listening]]
                  r == RunLoop(items, <<>>)
              IN  /\ buffer' = [buffer EXCEPT ![ClosureBuffer(c)] = PopOrEmpty(messages)]
                  /\ out' = Write(out, ClosureSocket(c), r.written)
                  /\ tasks' = IF r.rest = <<>> THEN tasks
                              ELSE [tasks EXCEPT ![c] =
                                      Append(@, [items |-> r.rest,
                                                 socket |-> ClosureSocket(c)])]
         ELSE /\ buffer' = [buffer EXCEPT ![ClosureBuffer(c)] = buf]
              /\ UNCHANGED <<out, tasks>>
  /\ UNCHANGED <<status, fs, listening, closing, exited, exitCode, call>>

RemoveAt(s, i) == SubSeq(s, 1, i - 1) \o SubSeq(s, i + 1, Len(s))

\* the file-system call a suspended handler waits for completes: the
\* handler resumes, writes the response and goes on with its loop
IOComplete(c, i) ==
  /\ ~exited
  /\ i \in 1..Len(tasks[c])
  /\ LET task == tasks[c][i]
         it == Head(task.items)
         request == JSONParse(it.msg).value
         tool == Get(request, "tool")
         params == Get(request, "params")
         obj == ResponseObject(HandleMessageSettle(ExecIO(tool, params, fs)))
         r == RunLoop(Tail(task.items), <<Entry(it, obj, TRUE)>>)
     IN  /\ fs' = FsAfter(tool, params, fs)
         /\ out' = Write(out, task.socket, r.written)
         /\ tasks' = [tasks EXCEPT ![c] =
                        IF r.rest = <<>> THEN RemoveAt(@, i)
                        ELSE [@ EXCEPT ![i] = [task EXCEPT !.items = r.rest]]]
  /\ UNCHANGED <<status, buffer, received, listening, closing, exited, exitCode, call>>

SocketErrorFatal(c) ==
  /\ ~exited
  /\ status[c] = "open"
  /\ status' = [status EXCEPT ![c] = "closed"]
  /\ exited' = TRUE
  /\ exitCode' = 1
  /\ UNCHANGED <<buffer, tasks, out, received, fs, listening, closing, call>>

\* socket.on("error") and the socket.on("close") that follows it in the same
\* turn of the event loop: the runtime has destroyed the socket, the
\* handlers log
SocketError(c) ==
  /\ ~exited
  /\ status[c] = "open"
  /\ status' = [status EXCEPT ![c] = "closed"]
  /\ UNCHANGED <<buffer, tasks, out, received, fs, listening, closing, exited, exitCode, call>>

\* socket.on("close") after the peer has ended the connection: the handler logs
SocketClose(c) ==
  /\ ~exited
  /\ status[c] = "open"
  /\ status' = [status EXCEPT ![c] = "closed"]
  /\ UNCHANGED <<buffer, tasks, out, received, fs, listening, closing, exited, exitCode, call>>

SigintKeepsListening ==
  /\ ~exited
  /\ closing' = TRUE
  /\ UNCHANGED <<status, buffer, tasks, out, received, fs, listening, exited, exitCode, call>>

\* process.on("SIGINT"): serverInstance.close(callback)
Sigint ==
  /\ ~exited
  /\ listening' = FALSE
  /\ closing' = TRUE
  /\ UNCHANGED <<status, buffer, tasks, out, received, fs, exited, exitCode, call>>

CloseCallbackNow ==
  /\ ~exited
  /\ closing
  /\ exited' = TRUE
  /\ exitCode' = 0
  /\ closing' = FALSE
  /\ UNCHANGED <<status, buffer, tasks, out, received, fs, listening, call>>

\* the callback of serverInstance.close: runs once every connection has ended
CloseCallback ==
  /\ ~exited
  /\ closing
  /\ \A c \in Conns : status[c] \in {"none", "closed"}
  /\ exited' = TRUE
  /\ exitCode' = 0
  /\ closing' = FALSE
  /\ UNCHANGED <<status, buffer, tasks, out, received, fs, listening, call>>

Next ==
  \/ \E c \in Conns : Accept(c)
  \/ \E c \in Conns : \E data \in Chunks(MaxRecv - TotalRecv) : Data(c, data)
  \/ \E c \in Conns : \E i \in 1..Len(tasks[c]) : IOComplete(c, i)
  \/ \E c \in Conns : SocketError(c)
  \/ \E c \in Conns : SocketClose(c)
  \/ Sigint
  \/ CloseCallback

Spec == Init /\ [][Next]_vars

\* The event loop runs the callback of serverInstance.close once the
\* listener's close event is due: the callback is not postponed for ever.
FairSpec == Spec /\ WF_vars(CloseCallback)

\* ------------------------------------------------- direct calls of tools
\* The server at rest, as far as a direct call of a tool is concerned.
ServerIdle ==
  /\ status = [c \in Conns |-> "none"]
  /\ buffer = [c \in Conns |-> <<>>]
  /\ tasks = [c \in Conns |-> <<>>]
  /\ out = [c \in Conns |-> <<>>]
  /\ received = [c \in Conns |-> <<>>]
  /\ fs = [f \in Files |-> NoFile]
  /\ listening = TRUE
  /\ closing = FALSE
  /\ exited = FALSE
  /\ exitCode = NotExited

server == <<status, buffer, tasks, out, received, fs, listening, closing, exited, exitCode>>

\* the numbers a calculate request carries
MaxNum == 2
Nums == (0 - MaxNum)..MaxNum

\* the operation names a calculate request carries: the four of the tool,
\* one it does not know, and none at all
CalcOperations == {"add", "subtract", "multiply", "divide", "modulo", Undefined}

CalcParams == [operation : CalcOperations, a : Nums, b : Nums]

CalcInit ==
  /\ ServerIdle
  /\ \E params \in CalcParams :
       call = [tool |-> "calculate", params |-> params, done |-> FALSE,
               response |-> "", keys |-> {}]

\* handleMessage({tool: "calculate", params}) and the serialisation of
\* what it resolves to
CallCalculate ==
  /\ call.tool = "calculate"
  /\ ~call.done
  /\ LET obj == ResponseObject(HandleMessageSettle(ExecCalculate(call.params)))
     IN  call' = [call EXCEPT !.done = TRUE, !.response = Stringify(obj),
                              !.keys = Keys(obj)]
  /\ UNCHANGED server

CalcNext == CallCalculate

CalcSpec == CalcInit /\ [][CalcNext]_vars

\* ------------------------------------------------------------ JSON values
\* A JSON text denotes a tree: a string, a number, null, or an object
\* mapping keys to trees. In memory an object is a cell of the heap and a
\* value is a primitive or a reference to a cell, so that two variables
\* can hold the same object. JUndefined is the value of a missing property.
JStr(str) == [t |-> "string", s |-> str]
JNum(num) == [t |-> "number", n |-> num]
JBool(bool) == [t |-> "boolean", b |-> bool]
JNull == [t |-> "null"]
JUndefined == [t |-> "undefined"]
JObj(f) == [t |-> "object", o |-> f]
JRef(addr) == [t |-> "ref", r |-> addr]

EmptyObject == [k \in {} |-> JUndefined]

\* the keys of the objects in requests
JKeys == {"a", "b"}

\* the object trees with keys among JKeys and members among the trees V
ObjectsOver(V) == {JObj(f) : f \in UNION {[S -> V] : S \in SUBSET JKeys}}

\* typeof
TypeOf(v) == IF v.t \in {"null", "ref", "object"} THEN "object" ELSE v.t

\* !v
Falsy(v) ==
  \/ v.t \in {"null", "undefined"}
  \/ v.t = "number" /\ v.n = 0
  \/ v.t = "string" /\ v.s = ""

\* v[k] for a v that is not null or undefined (the keys of the model name
\* no property of a string or a number)
GetProp(heap, v, k) ==
  IF v.t = "ref" /\ k \in DOMAIN heap[v.r] THEN heap[v.r][k] ELSE JUndefined

\* obj[k] = val on the cell of an object
SetProp(heap, addr, k, val) ==
  [heap EXCEPT ![addr] = [j \in DOMAIN @ \cup {k} |-> IF j = k THEN val ELSE @[j]]]

\* delete obj[k] on the cell of an object
DeleteProp(heap, addr, k) ==
  [heap EXCEPT ![addr] = [j \in DOMAIN @ \ {k} |-> @[j]]]

\* JSON.parse: builds the objects of a tree in fresh cells of the heap and
\* gives the value that stands for the tree
RECURSIVE JSONParseTree(_, _)
RECURSIVE ParseMembers(_, _, _, _)
JSONParseTree(heap, tree) ==
  IF tree.t # "object" THEN [heap |-> heap, val |-> tree]
  ELSE LET addr == Len(heap) + 1
       IN  [heap |-> ParseMembers(Append(heap, EmptyObject), addr, tree.o, DOMAIN tree.o),
            val |-> JRef(addr)]

ParseMembers(heap, addr, o, keys) ==
  IF keys = {} THEN heap
  ELSE LET k == CHOOSE j \in keys : TRUE
           m == JSONParseTree(heap, o[k])
       IN  ParseMembers(SetProp(m.heap, addr, k, m.val), addr, o, keys \ {k})

\* JSON.stringify, as the tree its text denotes: members whose value is
\* undefined are left out
RECURSIVE JSONStringifyTree(_, _)
JSONStringifyTree(heap, v) ==
  IF v.t # "ref" THEN v
  ELSE LET cell == heap[v.r]
           kept == {k \in DOMAIN cell : cell[k].t # "undefined"}
       IN  JObj([k \in kept |-> JSONStringifyTree(heap, cell[k])])

\* -------------------------------------------------- jsonProcess: validate
ValidateFieldShallow(heap, value, schemaField) ==
  IF schemaField.t = "string" THEN TypeOf(value) = schemaField.s
  ELSE IF schemaField.t = "ref" THEN ~Falsy(value) /\ TypeOf(value) = "object"
  ELSE TRUE

\* validateField: a schema node that is neither a string nor an object
\* accepts every value
RECURSIVE ValidateField(_, _, _)
ValidateField(heap, value, schemaField) ==
  IF schemaField.t = "string" THEN TypeOf(value) = schemaField.s
  ELSE IF schemaField.t = "ref"
  THEN IF Falsy(value) \/ TypeOf(value) # "object" THEN FALSE
       ELSE \A key \in DOMAIN heap[schemaField.r] :
              ValidateField(heap, GetProp(heap, value, key), heap[schemaField.r][key])
  ELSE TRUE

\* a parameter of a request, undefined when the request does not carry it
Param(params, k) == IF k \in DOMAIN params THEN params[k] ELSE JUndefined

\* ------------------------------------------------- jsonProcess: transform
\* String.prototype.split("."), on a string given by its characters
RECURSIVE SplitDot(_)
SplitDot(chars) ==
  IF ~Includes(chars, ".") THEN <<chars>>
  ELSE LET i == IndexOf(chars, ".")
       IN  <<SubSeq(chars, 1, i - 1)>> \o SplitDot(SubSeq(chars, i + 1, Len(chars)))

\* the string made of the given characters
RECURSIVE StringOf(_)
StringOf(chars) == IF chars = <<>> THEN "" ELSE Head(chars) \o StringOf(Tail(chars))

\* t.path.split(".")
PathParts(path) ==
  LET parts == SplitDot(path) IN [i \in 1..Len(parts) |-> StringOf(parts[i])]

CloneShared(heap, data) == [heap |-> heap, val |-> data]

\* JSON.parse(JSON.stringify(data)) for a data that is not undefined
DeepClone(heap, data) == JSONParseTree(heap, JSONStringifyTree(heap, data))

\* The loop that walks to the parent of the target: Return(the value it
\* ends on), or Throw when it reads a property of null.
RECURSIVE Navigate(_, _, _)
Navigate(heap, current, parts) ==
  IF parts = <<>> THEN Return(current)
  ELSE IF current.t \in {"null", "undefined"}
  THEN Throw("Cannot read properties of " \o current.t \o " (reading '"
             \o Head(parts) \o "')")
  ELSE LET next == GetProp(heap, current, Head(parts))
       IN  IF Falsy(next) THEN Return(next) ELSE Navigate(heap, next, Tail(parts))

\* the text of a primitive in the message of a TypeError
PrimitiveText(v) == IF v.t = "string" THEN v.s ELSE ToString(v.n)

\* current[k] = val in strict mode: a property cannot be created on a primitive
Assign(heap, current, k, val) ==
  IF current.t = "ref" THEN [kind |-> "ok", heap |-> SetProp(heap, current.r, k, val)]
  ELSE [kind |-> "throw", heap |-> heap,
        message |-> "Cannot create property '" \o k \o "' on " \o current.t \o " '"
                    \o PrimitiveText(current) \o "'"]

\* delete current[k]
Delete(heap, current, k) ==
  IF current.t = "ref" THEN DeleteProp(heap, current.r, k) ELSE heap

\* case "rename" with a newPath: current[newPath] = current[lastPart];
\* delete current[lastPart]
Rename(heap, current, lastPart, newPath) ==
  LET a == Assign(heap, current, newPath, GetProp(heap, current, lastPart))
  IN  IF a.kind = "throw" THEN a
      ELSE [kind |-> "ok", heap |-> Delete(a.heap, current, lastPart)]

\* the body of the loop over the transformations, for one of them
ApplyTransformation(heap, result, t) ==
  LET pathParts == PathParts(t.path)
      nav == Navigate(heap, result, SubSeq(pathParts, 1, Len(pathParts) - 1))
  IN  IF nav.kind = "throw" THEN [kind |-> "throw", heap |-> heap, message |-> nav.message]
      ELSE LET current == nav.value
               lastPart == pathParts[Len(pathParts)]
           IN  IF Falsy(current) THEN [kind |-> "ok", heap |-> heap]
               ELSE CASE t.operation = "rename" ->
                           IF "newPath" \in DOMAIN t /\ t.newPath # ""
                           THEN Rename(heap, current, lastPart, t.newPath)
                           ELSE [kind |-> "ok", heap |-> heap]
                      [] t.operation = "delete" ->
                           [kind |-> "ok", heap |-> Delete(heap, current, lastPart)]
                      [] t.operation = "add" ->
                           Assign(heap, current, lastPart, Param(t, "value"))
                      [] OTHER -> [kind |-> "ok", heap |-> heap]

\* for (const t of transformations)
RECURSIVE ApplyAll(_, _, _)
ApplyAll(heap, result, transformations) ==
  IF transformations = <<>> THEN [kind |-> "ok", heap |-> heap]
  ELSE LET r == ApplyTransformation(heap, result, Head(transformations))
       IN  IF r.kind = "throw" THEN r
           ELSE ApplyAll(r.heap, result, Tail(transformations))

\* execute of jsonProcess: its outcome and the heap it leaves. The value
\* returned is the object {isValid} or {result}, result being a value of
\* the heap.
ExecJsonProcess(heap, params) ==
  LET operation == Param(params, "operation")
      data == Param(params, "data")
      schema == Param(params, "schema")
  IN  IF operation = JStr("validate") /\ ~Falsy(schema)
      THEN [kind |-> "return", heap |-> heap,
            value |-> <<<<"isValid", ValidateField(heap, data, schema)>>>>]
      ELSE IF operation = JStr("transform") /\ "transformations" \in DOMAIN params
      THEN IF data.t = "undefined"
           THEN [kind |-> "throw", heap |-> heap,
                 message |-> "\"undefined\" is not valid JSON"]
           ELSE LET clone == DeepClone(heap, data)
                    r == ApplyAll(clone.heap, clone.val, params.transformations)
                IN  IF r.kind = "throw" THEN r
                    ELSE [kind |-> "return", heap |-> r.heap,
                          value |-> <<<<"result", clone.val>>>>]
      ELSE [kind |-> "throw", heap |-> heap,
            message |-> "Invalid operation or missing required parameters"]

\* JSON.stringify of the response to a jsonProcess request: its field and
\* the tree the text of its value denotes (for an error, the text itself)
JsonResponse(heap, obj) ==
  LET field == obj[1][1]
      v == obj[1][2]
  IN  [field |-> field,
       value |-> CASE field = "result" -> JSONStringifyTree(heap, v)
                   [] field = "isValid" -> JBool(v)
                   [] field = "error" -> [t |-> "text", text |-> v]]

\* handleMessage({tool: "jsonProcess", params}) on a parsed request, and
\* the serialisation of what it resolves to
CallJsonProcess ==
  /\ call.tool = "jsonProcess"
  /\ ~call.done
  /\ LET outcome == ExecJsonProcess(call.heap, call.params)
         obj == ResponseObject(HandleMessageSettle(outcome))
     IN  call' = [call EXCEPT !.done = TRUE, !.after = outcome.heap, !.returned = obj,
                              !.response = JsonResponse(outcome.heap, obj)]
  /\ UNCHANGED server

\* a jsonProcess request as received (request, its values are trees) and as
\* parsed (heap and params), before handleMessage is called; once called,
\* the heap it leaves (after), the object it resolves to (returned) and the
\* tree its serialisation denotes (response)
JsonCall(request, heap, params) ==
  [tool |-> "jsonProcess", request |-> request, heap |-> heap, params |-> params,
   done |-> FALSE, after |-> heap, returned |-> <<>>,
   response |-> [field |-> "", value |-> JUndefined]]

\* the values a validate request carries as data
ValidateLeaves == {JStr("x"), JNum(1), JNull}
ValidateData ==
  ValidateLeaves \cup ObjectsOver(ValidateLeaves \cup ObjectsOver(ValidateLeaves))

\* the schemas a validate request carries: type names and objects of them
TypeNames == {JStr("string"), JStr("object")}
Schemas == TypeNames \cup ObjectsOver(TypeNames \cup ObjectsOver(TypeNames))

ValidateRequests ==
  [operation : {JStr("validate")}, data : ValidateData, schema : Schemas]
    \cup [operation : {JStr("validate")}, schema : Schemas]
    \cup [operation : {JStr("validate")}, data : ValidateData]

\* JSON.parse of a validate request: data and schema become values of a heap
ParseValidate(request) ==
  LET d == JSONParseTree(<<>>, Param(request, "data"))
      sc == JSONParseTree(d.heap, Param(request, "schema"))
      given == DOMAIN request
  IN  JsonCall(request, sc.heap,
               [k \in given |-> CASE k = "data" -> d.val
                                  [] k = "schema" -> sc.val
                                  [] OTHER -> request[k]])

ValidateInit ==
  /\ ServerIdle
  /\ \E request \in ValidateRequests : call = ParseValidate(request)

ValidateNext == CallJsonProcess

ValidateSpec == ValidateInit /\ [][ValidateNext]_vars

\* the values a transform request carries as data
TransformLeaves == {JStr("x"), JNum(1)}
TransformData ==
  {JNull} \cup TransformLeaves
    \cup ObjectsOver(TransformLeaves \cup ObjectsOver(TransformLeaves))

\* the paths of the transformations: a key, or a key of the member a
Paths == {<<k>> : k \in JKeys} \cup {<<"a", ".", k>> : k \in JKeys}

\* the values an add transformation carries
AddValues == {JStr("y"), JObj([k \in {"b"} |-> JStr("y")])}

Transformations ==
  [operation : {"rename"}, path : Paths, newPath : JKeys \cup {""}]
    \cup [operation : {"delete"}, path : Paths]
    \cup [operation : {"add"}, path : Paths, value : AddValues]

\* the longest list of transformations of a request
MaxTransformations == 2

TransformationLists == UNION {[1..n -> Transformations] : n \in 0..MaxTransformations}

TransformRequests ==
  [operation : {JStr("transform")}, data : TransformData,
   transformations : TransformationLists]
    \cup [operation : {JStr("transform")}, transformations : TransformationLists]
    \cup [operation : {JStr("transform")}, data : TransformData]

\* JSON.parse of the transformations of a request: the value of an add
\* becomes a value of the heap
RECURSIVE ParseTransformations(_, _)
ParseTransformations(heap, ts) ==
  IF ts = <<>> THEN [heap |-> heap, val |-> <<>>]
  ELSE LET t == Head(ts)
           v == JSONParseTree(heap, Param(t, "value"))
           parsed == IF "value" \in DOMAIN t THEN [t EXCEPT !.value = v.val] ELSE t
           rest == ParseTransformations(v.heap, Tail(ts))
       IN  [heap |-> rest.heap, val |-> <<parsed>> \o rest.val]

\* JSON.parse of a transform request
ParseTransform(request) ==
  LET d == JSONParseTree(<<>>, Param(request, "data"))
      ts == ParseTransformations(d.heap, IF "transformations" \in DOMAIN request
                                         THEN request.transformations ELSE <<>>)
      given == DOMAIN request
  IN  JsonCall(request, ts.heap,
               [k \in given |-> CASE k = "data" -> d.val
                                  [] k = "transformations" -> ts.val
                                  [] OTHER -> request[k]])

TransformInit ==
  /\ ServerIdle
  /\ \E request \in TransformRequests : call = ParseTransform(request)

TransformNext == CallJsonProcess

TransformSpec == TransformInit /\ [][TransformNext]_vars

\* ------------------------------------------------------- stream history
\* The complete lines of a received stream, read off the positions of its
\* newlines.
NLPos(s) == {i \in 1..Len(s) : s[i] = NL}
NumLines(s) == Cardinality(NLPos(s))
LineEnd(s, k) == CHOOSE i \in NLPos(s) : Cardinality({j \in NLPos(s) : j < i}) = k - 1
LineAt(s, k) ==
  IF k \notin 1..NumLines(s) THEN <<>>
  ELSE SubSeq(s, IF k = 1 THEN 1 ELSE LineEnd(s, k - 1) + 1, LineEnd(s, k) - 1)
IsBlankLine(l) == \A i \in 1..Len(l) : l[i] = SP
NonBlankLines(c) ==
  {k \in 1..NumLines(received[c]) : ~IsBlankLine(LineAt(received[c], k))}

AnsweredIdx(c) == {out[c][i].idx : i \in 1..Len(out[c])}
\* the lines held by the suspended handler calls of a connection
PendingIdx(c) ==
  UNION {{tasks[c][i].items[j].idx : j \in 1..Len(tasks[c][i].items)} :
           i \in 1..Len(tasks[c])}

\* C1: on an open connection every response answers a complete line of that
\* connection that is not blank, no line is answered twice, and every
\* complete line that is not blank is either answered or held by a handler
\* call that waits for its file-system operation; a blank line is never
\* answered.
C1_OneResponsePerLine ==
  \A c \in Conns :
    status[c] = "open" =>
      /\ \A i \in 1..Len(out[c]) :
           /\ out[c][i].conn = c
           /\ out[c][i].idx \in NonBlankLines(c)
           /\ \A j \in 1..Len(out[c]) : i # j => out[c][i].idx # out[c][j].idx
      /\ \A k \in NonBlankLines(c) :
           (k \in AnsweredIdx(c)) # (k \in PendingIdx(c))
      /\ \A i \in 1..Len(tasks[c]) :
           LET it == Head(tasks[c][i].items)
           IN  /\ it.idx \in NonBlankLines(c)
               /\ JSONParse(it.msg).ok
               /\ AwaitsIO(JSONParse(it.msg).value.tool, JSONParse(it.msg).value.params)

\* a connection has answered three lines cut over several chunks, skipped a
\* blank line, and all its handlers have finished
C1_Witness ==
  \E c \in Conns :
    /\ status[c] = "open"
    /\ tasks[c] = <<>>
    /\ Len(out[c]) = 2
    /\ NumLines(received[c]) = 3
    /\ buffer[c] = <<>>
    /\ \E k \in 1..3 : k \notin NonBlankLines(c)
    /\ \E k \in 1..2 : out[c][k].ran

\* C2: on every connection the responses are written in the order of
\* their request lines.
C2_ResponsesInOrder ==
  \A c \in Conns :
    \A i, j \in 1..Len(out[c]) : i < j => out[c][i].idx < out[c][j].idx

\* the text of the object a request line is answered with, when the
\* handler settles with the given outcome
Envelope(o) ==
  IF o.kind = "throw" THEN "{\"error\":\"" \o o.message \o "\"}" \o NL
  ELSE Stringify(o.value) \o NL

InvalidText == "{\"error\":\"Invalid message format\"}" \o NL

FileContents == {"x"}
FsStates == [Files -> {NoFile} \cup FileContents]

\* the outcomes a parsed request can have on the given file systems
Outcomes(request, fss) ==
  IF request.tool \notin Tools THEN {Throw("Tool " \o request.tool \o " not found")}
  ELSE IF AwaitsIO(request.tool, request.params)
  THEN {ExecIO(request.tool, request.params, f) : f \in fss}
  ELSE {ExecSync(request.tool, request.params)}

\* the request line an entry answers
EntryLine(e) == LineAt(received[e.conn], e.idx)

\* The server's responses to a stream that arrives as one chunk on the only
\* connection: the loop processes the lines one after the other.
RECURSIVE Drain(_, _, _)
Drain(items, fsv, texts) ==
  LET r == RunLoop(items, <<>>)
      done == texts \o [i \in 1..Len(r.written) |-> r.written[i].text]
  IN  IF r.rest = <<>> THEN done
      ELSE LET request == JSONParse(Head(r.rest).msg).value
               obj == ResponseObject(HandleMessageSettle(
                                       ExecIO(request.tool, request.params, fsv)))
           IN  Drain(Tail(r.rest), FsAfter(request.tool, request.params, fsv),
                     Append(done, Stringify(obj) \o NL))

SingleChunkTexts(stream) ==
  LET lines == Front(Split(stream))
  IN  Drain([k \in 1..Len(lines) |->
               [msg |-> lines[k], conn |-> 1, idx |-> k, chunk |-> 0, late |-> FALSE]],
            [f \in Files |-> NoFile], <<>>)

\* C3: whatever the cut into chunks, once the handlers of the only
\* connection in use have finished, its responses are those of the same
\* stream arriving as a single chunk, and no response answers the
\* unterminated tail.
C3_ChunkingInvisible ==
  \A c \in Conns :
    (/\ status[c] = "open"
     /\ tasks[c] = <<>>
     /\ \A d \in Conns \ {c} : received[d] = <<>>)
    => /\ [i \in 1..Len(out[c]) |-> out[c][i].text] = SingleChunkTexts(received[c])
       /\ \A i \in 1..Len(out[c]) : out[c][i].idx <= NumLines(received[c])

\* C4: on an open connection a complete non-blank line that is not a JSON
\* text is answered with exactly {"error":"Invalid message format"} or is
\* still queued behind a suspended handler call, and every later non-blank
\* line of the connection is answered or held by a handler call too.
C4_MalformedLine ==
  \A c \in Conns :
    status[c] = "open" =>
      \A k \in NonBlankLines(c) :
        ~JSONParse(LineAt(received[c], k)).ok =>
          /\ \A i \in 1..Len(out[c]) : out[c][i].idx = k => out[c][i].text = InvalidText
          /\ k \in AnsweredIdx(c) \cup PendingIdx(c)
          /\ \A j \in NonBlankLines(c) : j > k => j \in AnsweredIdx(c) \cup PendingIdx(c)

\* a malformed line and a later request arrived in one chunk, both are answered
C4_Witness ==
  \E c \in Conns :
    /\ status[c] = "open"
    /\ Len(out[c]) = 2
    /\ out[c][1].text = InvalidText
    /\ out[c][1].idx < out[c][2].idx
    /\ out[c][2].ran
    /\ received[c] = <<"b", "b", NL, "b", NL>>

\* C5: a parsed request whose tool is not registered is answered with
\* {"error":"Tool <name> not found"} carrying its tool name, and execute is
\* not called for it.
C5_UnknownTool ==
  \A c \in Conns : \A i \in 1..Len(out[c]) :
    LET e == out[c][i]
        p == JSONParse(EntryLine(e))
    IN  (p.ok /\ p.value.tool \notin Tools) =>
          /\ e.text = "{\"error\":\"Tool " \o p.value.tool \o " not found\"}" \o NL
          /\ ~e.ran

C5_Witness ==
  \E c \in Conns : \E i \in 1..Len(out[c]) :
    /\ JSONParse(EntryLine(out[c][i])).ok
    /\ JSONParse(EntryLine(out[c][i])).value.tool = "nope"
    /\ out[c][i].text = "{\"error\":\"Tool nope not found\"}" \o NL

\* C6: a parsed request is never answered with the format error: its
\* response is the value its handler returns or {"error": <the message of
\* the failure of the lookup or of the handler>}; and on an open connection
\* every non-blank line after one answered with an error is answered or
\* held by a handler call.
C6_DispatchNeverFails ==
  \A c \in Conns : \A i \in 1..Len(out[c]) :
    LET e == out[c][i]
        p == JSONParse(EntryLine(e))
    IN  p.ok =>
          /\ e.text # InvalidText
          /\ e.text \in {Envelope(o) : o \in Outcomes(p.value, FsStates)}
          /\ ("error" \in e.keys /\ status[c] = "open") =>
               \A j \in NonBlankLines(c) :
                 j > e.idx => j \in AnsweredIdx(c) \cup PendingIdx(c)

\* a handler failed (read of a missing file) and the next line was answered
C6_Witness ==
  \E c \in Conns :
    /\ status[c] = "open"
    /\ Len(out[c]) = 2
    /\ out[c][1].ran /\ "error" \in out[c][1].keys
    /\ out[c][1].idx < out[c][2].idx
    /\ "message" \in out[c][2].keys

\* the result fields each tool declares
DeclaredFields(request) ==
  CASE request.tool = "echo" -> {"message"}
    [] request.tool = "listDir" -> {"items"}
    [] request.tool = "searchFiles" -> {"matches"}
    [] request.tool = "calculate" -> {"result"}
    [] request.tool = "fileContent" ->
         IF Get(request.params, "operation") = "read" THEN {"content"} ELSE {"success"}
    [] request.tool = "systemInfo" -> {"cpu", "memory", "system"}

\* C7: the response to a well-formed request to a registered tool carries
\* the tool's declared result fields or an error field.
C7_ResultOrError ==
  \A c \in Conns : \A i \in 1..Len(out[c]) :
    LET e == out[c][i]
        p == JSONParse(EntryLine(e))
    IN  (p.ok /\ p.value.tool \in Tools) =>
          ("error" \in e.keys \/ DeclaredFields(p.value) \subseteq e.keys)

IsSuffix(t, s) == Len(t) <= Len(s) /\ t = SubSeq(s, Len(s) - Len(t) + 1, Len(s))

\* C8: every line written to a connection answers a request line received
\* on that connection, and a connection's buffer holds only characters
\* received on that connection (it is an end of its received stream).
C8_NoCrossTalk ==
  \A c \in Conns :
    /\ \A i \in 1..Len(out[c]) : out[c][i].conn = c /\ out[c][i].idx <= NumLines(received[c])
    /\ IsSuffix(buffer[c], received[c])

\* two open connections, each answered, with different responses, one of
\* them with a buffered tail
C8_Witness ==
  /\ \A c \in {1, 2} : status[c] = "open" /\ out[c] # <<>>
  /\ buffer[1] # buffer[2]
  /\ out[1][1].text # out[2][1].text

\* the write requests among the complete lines a connection has received
OwnWrites(c) ==
  {JSONParse(LineAt(received[c], k)).value.params :
     k \in {j \in NonBlankLines(c) :
              LET p == JSONParse(LineAt(received[c], j))
              IN  /\ p.ok
                  /\ p.value.tool = "fileContent"
                  /\ Get(p.value.params, "operation") = "write"
                  /\ Get(p.value.params, "content") # Undefined}}

\* the file systems a connection's own write requests can produce
SoloFs(c) ==
  {f \in FsStates :
     \A path \in Files :
       f[path] = NoFile \/ \E w \in OwnWrites(c) : w.path = path /\ w.content = f[path]}

\* the responses a line of a connection can get when no other connection
\* sends anything
SoloTexts(c, line) ==
  LET p == JSONParse(line)
  IN  IF ~p.ok THEN {InvalidText}
      ELSE {Envelope(o) : o \in Outcomes(p.value, SoloFs(c))}

ReadsFs(line) ==
  LET p == JSONParse(line)
  IN  /\ p.ok
      /\ \/ p.value.tool \in {"listDir", "searchFiles"}
         \/ p.value.tool = "fileContent" /\ Get(p.value.params, "operation") = "read"

C10_CloseFrame ==
  [][\A c \in Conns :
       (status[c] = "open" /\ status'[c] = "closed")
       => /\ \A d \in Conns \ {c} :
               /\ status'[d] = status[d]
               /\ buffer'[d] = buffer[d]
               /\ tasks'[d] = tasks[d]
               /\ out'[d] = out[d]
          /\ listening' = listening
          /\ closing' = closing
          /\ exited' = exited
          /\ fs' = fs]_vars

\* one connection is closed after an error while another is open with a
\* buffered tail, a suspended handler call and a response, and the server
\* still listens
C10_Witness ==
  \E c, d \in Conns :
    /\ c # d
    /\ status[c] = "closed"
    /\ status[d] = "open"
    /\ buffer[d] # <<>> /\ tasks[d] # <<>> /\ out[d] # <<>>
    /\ listening

\* the characters of a stream after its last newline
AfterLastNL(s) ==
  IF NLPos(s) = {} THEN s
  ELSE SubSeq(s, (CHOOSE i \in NLPos(s) : \A j \in NLPos(s) : j <= i) + 1, Len(s))

\* C17: between events, the buffer of every accepted connection holds no
\* newline and is exactly what the connection has received after the last
\* newline received so far (everything received when there is none),
\* whatever the chunks were and whether or not handler calls of earlier
\* chunks are still suspended.
C17_BufferIsTail ==
  \A c \in Conns :
    status[c] # "none" =>
      /\ \A i \in 1..Len(buffer[c]) : buffer[c][i] # NL
      /\ buffer[c] = AfterLastNL(received[c])

\* a connection holds an unterminated tail behind two complete lines while a
\* handler call of an earlier chunk is suspended
C17_Witness ==
  \E c \in Conns :
    /\ status[c] = "open"
    /\ tasks[c] # <<>>
    /\ NumLines(received[c]) = 2
    /\ buffer[c] # <<>>
    /\ buffer[c] = AfterLastNL(received[c])

\* C15: on an open connection the responses to the lines of one chunk are
\* written in the order of the lines, the lines a suspended handler call
\* still holds come after every answered line of its chunk in that order,
\* and when a line's handler has been invoked (the line is answered, or is
\* the one its handler call waits on) every earlier non-blank line of the
\* same chunk has its response written before.
C15_InChunkOrder ==
  \A c \in Conns :
    status[c] = "open" =>
      /\ \A i, j \in 1..Len(out[c]) :
           (i < j /\ out[c][i].chunk = out[c][j].chunk) => out[c][i].idx < out[c][j].idx
      /\ \A j \in 1..Len(out[c]) : \A k \in NonBlankLines(c) :
           (out[c][j].chunk < k /\ k < out[c][j].idx)
           => \E i \in 1..(j - 1) : out[c][i].idx = k
      /\ \A t \in 1..Len(tasks[c]) :
           LET items == tasks[c][t].items
           IN  /\ \A m, n \in 1..Len(items) :
                    m < n => /\ items[m].idx < items[n].idx
                             /\ items[m].chunk = items[n].chunk
               /\ \A k \in NonBlankLines(c) :
                    (Head(items).chunk < k /\ k < Head(items).idx) => k \in AnsweredIdx(c)
               /\ \A i \in 1..Len(out[c]) :
                    out[c][i].chunk = Head(items).chunk => out[c][i].idx < Head(items).idx

\* one chunk brought a write request and an echo request; the handler waited
\* for the file system, then both were answered in the order of the lines
C15_Witness ==
  \E c \in Conns :
    /\ status[c] = "open"
    /\ tasks[c] = <<>>
    /\ Len(out[c]) = 2
    /\ out[c][1].chunk = out[c][2].chunk
    /\ out[c][1].idx = 1 /\ "success" \in out[c][1].keys
    /\ out[c][2].idx = 2 /\ "message" \in out[c][2].keys

\* C18: the step that closes a connection cancels none of its suspended
\* handler calls; once a connection is closed no line is written to it, its
\* buffer is never dispatched (no handler call is started for it, the
\* buffer stays as it is); a step that changes its suspended handler calls
\* is the resumption of one of them, which performs the file-system
\* operation of the line it waited on and goes on with the later lines of
\* its chunk, and that step, whose writes fail, does not end the process.
C18_CloseMidFlight ==
  [][\A c \in Conns :
       /\ (status[c] = "open" /\ status'[c] = "closed") => tasks'[c] = tasks[c]
       /\ status[c] = "closed" =>
            /\ out'[c] = out[c]
            /\ buffer'[c] = buffer[c]
            /\ PendingIdx(c)' \subseteq PendingIdx(c)
            /\ tasks'[c] # tasks[c] =>
                 /\ exited' = exited /\ exitCode' = exitCode
                 /\ \E i \in 1..Len(tasks[c]) :
                      LET it == Head(tasks[c][i].items)
                          request == JSONParse(it.msg).value
                      IN  /\ fs' = FsAfter(request.tool, request.params, fs)
                          /\ it.idx \notin PendingIdx(c)']_vars

\* a connection closed while its handler call waited for the write of a
\* file: the write has been done, the echo request behind it in the chunk
\* has been processed, nothing was delivered and the tail is still buffered
C18_Witness ==
  \E c \in Conns :
    /\ status[c] = "closed"
    /\ \A d \in Conns \ {c} : received[d] = <<>>
    /\ NumLines(received[c]) = 2
    /\ buffer[c] # <<>>
    /\ tasks[c] = <<>>
    /\ out[c] = <<>>
    /\ fs["f"] = "x"
    /\ ~exited

\* C19: the process exits only in a step taken when no connection is open
\* and the listener is closed, and then with status 0; so while a connection
\* is open the process has not exited; and every non-blank line completed by
\* a data event after the interrupt signal is answered or held by a handler
\* call that waits for its file-system operation.
C19_ExitWaitsForConnections ==
  [][/\ (~exited /\ exited') =>
          /\ \A c \in Conns : status[c] # "open"
          /\ ~listening
          /\ exitCode' = 0
     /\ \A c \in Conns :
          /\ status[c] = "open" => ~exited
          /\ (~listening /\ received'[c] # received[c]) =>
               \A k \in NonBlankLines(c)' \ NonBlankLines(c) :
                 k \in AnsweredIdx(c)' \cup PendingIdx(c)']_vars

\* after the interrupt signal a connection is still open, the process runs,
\* and a request that arrived after the signal has been executed and answered
C19_Witness ==
  \E c \in Conns :
    /\ ~listening
    /\ ~exited
    /\ status[c] = "open"
    /\ \E i \in 1..Len(out[c]) : out[c][i].late /\ out[c][i].ran

\* C11: once the interrupt handler has run no connection is accepted any
\* more and the listener stays closed; and whenever after the signal no
\* connection is open (the listening socket has closed), the process
\* eventually exits, with status 0.
C11_ShutdownExits ==
  /\ [][(closing \/ exited) =>
          /\ ~listening'
          /\ \A c \in Conns : status[c] = "none" => status'[c] = "none"]_vars
  /\ (closing /\ \A c \in Conns : status[c] # "open") ~> (exited /\ exitCode = 0)

\* the process has exited with status 0 after the signal, one connection
\* was served and has closed, the other was never accepted
C11_Witness ==
  /\ exited
  /\ exitCode = 0
  /\ ~listening
  /\ \E c \in Conns : status[c] = "closed" /\ out[c] # <<>>
  /\ \E c \in Conns : status[c] = "none"

\* C12: calculate answers with a result field exactly when the operation
\* is add, subtract or multiply, or divide with b not 0; the result of add,
\* subtract and multiply is a+b, a-b and a*b, that of an exact division the
\* quotient; divide with b = 0 is answered {"error":"Division by zero"}
\* whatever a is; every other operation is answered with an error field only.
C12_CalculateTotal ==
  (call.tool = "calculate" /\ call.done) =>
    LET operation == call.params.operation
        a == call.params.a
        b == call.params.b
        defined == \/ operation \in {"add", "subtract", "multiply"}
                   \/ operation = "divide" /\ b # 0
        ResultText(n) == "{\"result\":" \o ToString(n) \o "}"
    IN  /\ defined <=> call.keys = {"result"}
        /\ ~defined <=> call.keys = {"error"}
        /\ operation = "add" => call.response = ResultText(a + b)
        /\ operation = "subtract" => call.response = ResultText(a - b)
        /\ operation = "multiply" => call.response = ResultText(a * b)
        /\ (operation = "divide" /\ b # 0) =>
             \A q \in Nums : q * b = a => call.response = ResultText(q)
        /\ (operation = "divide" /\ b = 0) =>
             call.response = "{\"error\":\"Division by zero\"}"
        /\ operation \notin {"add", "subtract", "multiply", "divide"} =>
             call.response = "{\"error\":\"Invalid operation\"}"

\* a division by zero with a non-zero dividend has been answered
C12_Witness ==
  /\ call.tool = "calculate"
  /\ call.done
  /\ call.params.operation = "divide"
  /\ call.params.b = 0
  /\ call.params.a = 2
  /\ call.response = "{\"error\":\"Division by zero\"}"

\* the member of a tree under a key, JUndefined when it has none
Member(tree, k) ==
  IF tree.t = "object" /\ k \in DOMAIN tree.o THEN tree.o[k] ELSE JUndefined

\* the runtime type of the value a tree denotes
RuntimeType(tree) ==
  CASE tree.t = "string" -> "string"
    [] tree.t = "number" -> "number"
    [] tree.t = "undefined" -> "undefined"
    [] tree.t \in {"null", "object"} -> "object"

\* data matches schema: a type name requires that runtime type, an object
\* node a non-null object whose every declared key matches
RECURSIVE Matches(_, _)
Matches(data, schema) ==
  IF schema.t = "string" THEN RuntimeType(data) = schema.s
  ELSE /\ data.t = "object"
       /\ \A k \in DOMAIN schema.o : Matches(Member(data, k), schema.o[k])

\* data without the keys its schema does not declare, at every level
RECURSIVE Declared(_, _)
Declared(data, schema) ==
  IF data.t = "object" /\ schema.t = "object"
  THEN JObj([k \in DOMAIN data.o \cap DOMAIN schema.o |-> Declared(data.o[k], schema.o[k])])
  ELSE data

\* C13: a validate request with a schema made of type names and objects is
\* answered {isValid}, true exactly when the data matches the schema
\* recursively; a declared sub-object missing from an object gives false;
\* and the answer is the one to the same data without its undeclared keys.
C13_ValidateRecursive ==
  (/\ call.tool = "jsonProcess"
   /\ call.done
   /\ call.request.operation = JStr("validate")
   /\ "schema" \in DOMAIN call.request) =>
    LET data == Param(call.request, "data")
        schema == call.request.schema
    IN  /\ call.response.field = "isValid"
        /\ call.response.value = JBool(Matches(data, schema))
        /\ (/\ schema.t = "object"
            /\ data.t = "object"
            /\ \E k \in DOMAIN schema.o : schema.o[k].t = "object" /\ k \notin DOMAIN data.o)
           => call.response.value = JBool(FALSE)
        /\ call.response.value = JBool(Matches(Declared(data, schema), schema))
        /\ call.after = call.heap

\* a nested schema was matched by data that carries an undeclared key
C13_Witness ==
  /\ call.tool = "jsonProcess"
  /\ call.done
  /\ call.request.operation = JStr("validate")
  /\ call.request.schema = JObj([k \in {"a"} |-> JObj([j \in {"b"} |-> JStr("string")])])
  /\ "data" \in DOMAIN call.request
  /\ call.request.data =
       JObj([k \in {"a", "b"} |->
               IF k = "a" THEN JObj([j \in {"b"} |-> JStr("x")]) ELSE JNum(1)])
  /\ call.response = [field |-> "isValid", value |-> JBool(TRUE)]

\* the cells of the objects a value is made of
RECURSIVE Cells(_, _)
Cells(heap, v) ==
  IF v.t # "ref" THEN {}
  ELSE {v.r} \cup UNION {Cells(heap, heap[v.r][k]) : k \in DOMAIN heap[v.r]}

\* the cells of the values the add transformations of a parsed request carry
AddValueCells(heap, ts) ==
  UNION {Cells(heap, Param(ts[i], "value")) : i \in 1..Len(ts)}

IsTransformCall ==
  /\ call.tool = "jsonProcess"
  /\ call.done
  /\ call.request.operation = JStr("transform")
  /\ "transformations" \in DOMAIN call.request

\* C14 as stated: a transform call changes no object of its request, every
\* change it makes is in the objects it created for the result.
C14_InputUntouched ==
  IsTransformCall =>
    \A addr \in 1..Len(call.heap) : call.after[addr] = call.heap[addr]

\* C14 amended: a transform call changes no object of the data of its
\* request, whatever it answers, and the result it returns shares no object
\* with the data; the only objects of the request it can change are those
\* of the value of an add transformation, which the result holds by
\* reference.
C14_DataUntouched ==
  IsTransformCall =>
    LET data == Param(call.params, "data")
    IN  /\ \A addr \in Cells(call.heap, data) : call.after[addr] = call.heap[addr]
        /\ JSONStringifyTree(call.after, data) = Param(call.request, "data")
        /\ call.response.field = "result" =>
             Cells(call.after, call.returned[1][2]) \cap Cells(call.heap, data) = {}
        /\ \A addr \in 1..Len(call.heap) :
             call.after[addr] # call.heap[addr] =>
               addr \in AddValueCells(call.heap, call.params.transformations)

\* a member of a nested object of the data was renamed and a member added:
\* the result differs from the data, the data is as it was
C14_Witness ==
  /\ IsTransformCall
  /\ "data" \in DOMAIN call.request
  /\ call.request.data =
       JObj([k \in {"a"} |-> JObj([j \in {"a"} |-> JStr("x")])])
  /\ call.response =
       [field |-> "result",
        value |-> JObj([k \in {"a", "b"} |->
                          IF k = "a" THEN JObj([j \in {"b"} |-> JStr("x")])
                          ELSE JStr("y")])]
  /\ JSONStringifyTree(call.after, call.params.data) = call.request.data

\* the keys a path names: in the paths of the requests every key is one
\* character, so keys and dots alternate
KeysOfPath(path) == [i \in 1..((Len(path) + 1) \div 2) |-> path[2 * i - 1]]

\* the member of a tree reached by successive keys
RECURSIVE TreeAt(_, _)
TreeAt(tree, keys) ==
  IF keys = <<>> THEN tree ELSE TreeAt(Member(tree, Head(keys)), Tail(keys))

\* C16: a request whose only transformation is a rename with a non-empty
\* newPath, whose parent container is reachable in the data and holds the
\* old key, is answered with a result whose parent holds the old key's
\* original value under the newPath key, and no longer holds the old key
\* when that is another key.
C16_RenameMoves ==
  (/\ IsTransformCall
   /\ "data" \in DOMAIN call.request
   /\ Len(call.request.transformations) = 1
   /\ call.request.transformations[1].operation = "rename"
   /\ call.request.transformations[1].newPath # "") =>
    LET t == call.request.transformations[1]
        keys == KeysOfPath(t.path)
        up == SubSeq(keys, 1, Len(keys) - 1)
        old == keys[Len(keys)]
        parent == TreeAt(call.request.data, up)
    IN  (parent.t = "object" /\ old \in DOMAIN parent.o) =>
          /\ call.response.field = "result"
          /\ LET after == TreeAt(call.response.value, up)
             IN  /\ after.t = "object"
                 /\ Member(after, t.newPath) = parent.o[old]
                 /\ old # t.newPath => old \notin DOMAIN after.o

====
